---- MODULE Spec2Model ----
(***************************************************************************)
(* Keyword-to-timestamp resolution pipeline of src/main.go.                *)
(*                                                                         *)
(* One request is followed from App.SearchKeywordInSubtitles through the   *)
(* caption tier, TranscribeChunkedUntilMatch (Mode A) and GetTranscript    *)
(* (Mode B).  The external collaborators (yt-dlp, ffmpeg, the              *)
(* transcription API, the environment) are nondeterministic choices made   *)
(* inside the action of the statement that calls them.                     *)
(*                                                                         *)
(* Strings are sequences of one-character strings, so that ToLower,        *)
(* TrimSpace, Contains, Index and Fields are computed, not assumed.        *)
(* Times are float64 seconds in the source; the model keeps them as        *)
(* integer milliseconds (every time of the catalogue is a whole number of  *)
(* milliseconds, on which the float additions of the source are exact).    *)
(***************************************************************************)
EXTENDS Integers, Sequences, FiniteSets, TLC

\* ------------------------------------------------------------- bounds

\* Most chunks the segmenter produces in a pipeline run (Spec).
MaxChunks == 3

\* Most chunks the segmenter produces when GetTranscript is run alone (SpecB);
\* above semCap so that the limiter is what bounds the calls in flight.
MaxParChunks == 5

\* ---------------------------------------------------- program constants

\* chunkDurationSec := 300 (main.go:203 in Mode A, main.go:505 in Mode B)
chunkDurationSec == 300

\* sem := make(chan struct{}, 4) (main.go:546)
semCap == 4

\* ------------------------------------------------------------ strings

\* unicode.ToLower on the one-byte letters of the catalogue
LowerCh(c) ==
  CASE c = "A" -> "a"
    [] c = "B" -> "b"
    [] c = "F" -> "f"
    [] c = "K" -> "k"
    [] OTHER -> c

\* Two letters of more than one byte (a Go string is its UTF-8 bytes, a byte
\* above 0x7F being written here by its two hex digits): U+0130, whose lower
\* case U+0069 "i" is one byte shorter, and U+023A, whose lower case U+2C65
\* is one byte longer.
UpperIDot == <<"C4", "B0">>
UpperAStroke == <<"C8", "BA">>
LowerAStroke == <<"E2", "B1", "A5">>

\* strings.ToLower: strings.Map(unicode.ToLower, s), rune by rune
RECURSIVE ToLower(_)
ToLower(s) ==
  IF s = <<>> THEN <<>>
  ELSE IF Len(s) >= 2 /\ SubSeq(s, 1, 2) = UpperIDot
       THEN <<"i">> \o ToLower(SubSeq(s, 3, Len(s)))
  ELSE IF Len(s) >= 2 /\ SubSeq(s, 1, 2) = UpperAStroke
       THEN LowerAStroke \o ToLower(SubSeq(s, 3, Len(s)))
  ELSE << LowerCh(s[1]) >> \o ToLower(Tail(s))

\* unicode.IsSpace on the characters of the catalogue
IsSpace(c) == c \in {" ", "\n"}

\* strings.TrimSpace: drop the leading and the trailing white space
TrimSpace(s) ==
  LET nonsp == {i \in DOMAIN s : ~IsSpace(s[i])}
  IN IF nonsp = {} THEN <<>>
     ELSE LET lo == CHOOSE i \in nonsp : \A j \in nonsp : i <= j
              hi == CHOOSE i \in nonsp : \A j \in nonsp : i >= j
          IN SubSeq(s, lo, hi)

\* strings.Index: 0-based position of the first occurrence of sub in s, -1 if none
Index(s, sub) ==
  LET at == {i \in 0..(Len(s) - Len(sub)) : SubSeq(s, i + 1, i + Len(sub)) = sub}
  IN IF at = {} THEN -1
     ELSE CHOOSE i \in at : \A j \in at : i <= j

\* strings.Contains
Contains(s, sub) == Index(s, sub) >= 0

\* len(strings.Fields(s)): the number of maximal runs of non-space characters
FieldsLen(s) ==
  Cardinality({i \in DOMAIN s : ~IsSpace(s[i]) /\ (i = 1 \/ IsSpace(s[i - 1]))})

\* strings.Join(parts, " ")
RECURSIVE JoinSpace(_)
JoinSpace(parts) ==
  IF parts = <<>> THEN <<>>
  ELSE IF Len(parts) = 1 THEN parts[1]
  ELSE parts[1] \o <<" ">> \o JoinSpace(Tail(parts))

\* countWordsBeforeKeyword (main.go:631-644)
countWordsBeforeKeyword(text, kw) ==
  LET keywordIndex == Index(ToLower(text), ToLower(kw))
  IN IF keywordIndex = -1 THEN 0
     ELSE FieldsLen(SubSeq(text, 1, keywordIndex))

\* float64(words) / 150.0 * 60.0 seconds (main.go:146, 444), in milliseconds
EstimatedTime(words) == (words * 60 * 1000) \div 150

\* the decimal digits, for fmt.Sprintf's %d
DigitChars == <<"0", "1", "2", "3", "4", "5", "6", "7", "8", "9">>

\* strconv-style decimal rendering of a non-negative integer
RECURSIVE Itoa(_)
Itoa(n) ==
  IF n < 10 THEN << DigitChars[n + 1] >>
  ELSE Itoa(n \div 10) \o << DigitChars[(n % 10) + 1] >>

\* fmt.Sprintf("%02d", n) for n >= 0: zero-padded to two digits, never cut
Pad2(n) == IF n < 10 THEN <<"0">> \o Itoa(n) ELSE Itoa(n)

\* \d of a regular expression
IsDigit(c) == \E d \in 0..9 : DigitChars[d + 1] = c

\* strconv.Atoi on a string of decimal digits
RECURSIVE Atoi(_)
Atoi(ds) ==
  IF ds = <<>> THEN 0
  ELSE Atoi(SubSeq(ds, 1, Len(ds) - 1)) * 10
       + (CHOOSE d \in 0..9 : DigitChars[d + 1] = ds[Len(ds)])

\* strings.Split: the pieces between the occurrences of sep, found from the
\* left and not overlapping
RECURSIVE Split(_, _)
Split(s, sep) ==
  LET i == Index(s, sep)
  IN IF i = -1 THEN << s >>
     ELSE << SubSeq(s, 1, i) >> \o Split(SubSeq(s, i + Len(sep) + 1, Len(s)), sep)

\* a faulty secondsToTimeString: the fraction is cut, not rounded
secondsToTimeStringTruncating(ms) ==
  LET totalSeconds == ms \div 1000
      h == totalSeconds \div 3600
      m == (totalSeconds % 3600) \div 60
      s == totalSeconds % 60
  IN Pad2(h) \o <<":">> \o Pad2(m) \o <<":">> \o Pad2(s)

\* secondsToTimeString (main.go:371-377) on a time in milliseconds:
\* int(seconds + 0.5) cuts towards zero, which on a non-negative time is
\* the floor of the time plus half a second
secondsToTimeString(ms) ==
  LET totalSeconds == (ms + 500) \div 1000
      h == totalSeconds \div 3600
      m == (totalSeconds % 3600) \div 60
      s == totalSeconds % 60
  IN Pad2(h) \o <<":">> \o Pad2(m) \o <<":">> \o Pad2(s)

\* ------------------------------------------------- catalogue of inputs

\* Keywords a request may carry (searchHandler rejects only the empty one):
\* another case than the text, leading white space, a phrase that only the
\* joined text of two chunks holds, and a word no text holds.
Keywords == { <<"A">>, <<" ", "b">>, <<"a", " ", "a">>, <<"c">> }

\* Language hints: absent, and one that needs trimming and lowering.
Langs == { <<>>, <<" ", "F", "r">> }

\* What the transcription API returns for one chunk: an error, or the chunk's
\* text and its segments, with times local to the chunk (0 .. chunkDurationSec
\* seconds), in order of start, the text being the segment texts joined.
Seg(s, e, t) == [Start |-> s, End |-> e, Text |-> t]

RespTwo ==
  [st |-> "ok",
   text |-> <<"a", " ", "b", " ", "a">>,
   segments |-> << Seg(0, 150000, <<"a">>),
                   Seg(150000, chunkDurationSec * 1000, <<"b", " ", "a">>) >>]

RespOne ==
  [st |-> "ok",
   text |-> <<"a", " ", "B">>,
   segments |-> << Seg(5000, 290000, <<"a", " ", "B">>) >>]

RespSilent == [st |-> "ok", text |-> <<>>, segments |-> <<>>]

RespErr == [st |-> "err", text |-> <<>>, segments |-> <<>>]

\* no call made (yet) for the chunk
NoResp == [st |-> "none", text |-> <<>>, segments |-> <<>>]

Responses == {RespTwo, RespOne, RespSilent, RespErr}

\* a file that does not exist, and one that holds doc
NoFile == [exists |-> FALSE, doc |-> <<>>]
File(d) == [exists |-> TRUE, doc |-> d]

\* a nil error
NoErr == "nil"

\* ------------------------------------------------------ caption files

\* A line of a caption file as yt-dlp writes it: a line of text (str, which
\* shows as shown once its tags are taken away), or a timecode line from one
\* time to another, in milliseconds, with gap around the arrow.
TextLn(str, shown) ==
  [kind |-> "text", str |-> str, shown |-> shown, from |-> 0, to |-> 0, gap |-> <<>>]

TimeLn(from, to, gap) ==
  [kind |-> "time", str |-> <<>>, shown |-> <<>>, from |-> from, to |-> to, gap |-> gap]

\* zero-padded to three digits
Pad3(n) == IF n < 100 THEN <<"0">> \o Pad2(n) ELSE Itoa(n)

\* hh:mm:ss,mmm
Stamp(ms) ==
  Pad2(ms \div 3600000) \o <<":">> \o Pad2((ms % 3600000) \div 60000) \o <<":">>
  \o Pad2((ms % 60000) \div 1000) \o <<",">> \o Pad3(ms % 1000)

\* the characters of a line
Render(ln) ==
  IF ln.kind = "time"
  THEN Stamp(ln.from) \o ln.gap \o <<"-", "-", ">">> \o ln.gap \o Stamp(ln.to)
  ELSE ln.str

\* the parts with sep between them
RECURSIVE Join(_, _)
Join(parts, sep) ==
  IF parts = <<>> THEN <<>>
  ELSE IF Len(parts) = 1 THEN parts[1]
  ELSE parts[1] \o sep \o Join(Tail(parts), sep)

\* the characters of a file: the lines of each block, one blank line between
\* two blocks, and what ends the file
RenderDoc(blocks, ending) ==
  Join([b \in DOMAIN blocks |->
          Join([k \in DOMAIN blocks[b] |-> Render(blocks[b][k])], <<"\n">>)],
       <<"\n", "\n">>) \o ending

CounterLn == TextLn(<<"1">>, <<"1">>)
WordLn == TextLn(<<"a">>, <<"a">>)
TaggedLn ==
  TextLn(<<"<", "i", ">", "a", " ", "B", "<", "/", "i", ">">>, <<"a", " ", "B">>)
SpacesLn == TextLn(<<" ">>, <<" ">>)

\* Caption documents yt-dlp may write: a block without a timecode line, then
\* two entries; and a single block with nothing after its timecode line.
CaptionDocs ==
  { RenderDoc(<< << TextLn(<<"b">>, <<"b">>) >>,
                 << CounterLn, TimeLn(1000, 2000, <<" ">>), WordLn >>,
                 << CounterLn, TimeLn(2500, 4000, <<" ">>), TaggedLn >> >>,
              <<"\n", "\n">>),
    RenderDoc(<< << CounterLn, TimeLn(0, 1000, <<" ">>), SpacesLn >> >>, <<"\n">>) }

\* \d{2}:\d{2}:\d{2},\d{3} at position i of s
StampAt(s, i) ==
  /\ i >= 1 /\ i + 11 <= Len(s)
  /\ \A k \in {0, 1, 3, 4, 6, 7, 9, 10, 11} : IsDigit(s[i + k])
  /\ s[i + 2] = ":" /\ s[i + 5] = ":" /\ s[i + 8] = ","

\* the number of white-space characters of s from position p on (\s*)
SpacesFrom(s, p) ==
  LET stops == {q \in p..(Len(s) + 1) : q = Len(s) + 1 \/ ~IsSpace(s[q])}
  IN (CHOOSE q \in stops : \A r \in stops : q <= r) - p

\* position of the second stamp when timeRegex (main.go:273) matches s from
\* position i on, 0 when it does not
MatchAt(s, i) ==
  IF ~StampAt(s, i) THEN 0
  ELSE LET a == i + 12 + SpacesFrom(s, i + 12)
       IN IF ~(a + 2 <= Len(s) /\ SubSeq(s, a, a + 2) = <<"-", "-", ">">>) THEN 0
          ELSE LET j == a + 3 + SpacesFrom(s, a + 3)
               IN IF StampAt(s, j) THEN j ELSE 0

\* timeRegex.MatchString / FindStringSubmatch: the position of the leftmost
\* match in s, 0 if none
TimeMatch(s) ==
  LET at == {i \in 1..Len(s) : MatchAt(s, i) # 0}
  IN IF at = {} THEN 0 ELSE CHOOSE i \in at : \A j \in at : i <= j

\* SubtitleParser.parseTime (main.go:52-58), in milliseconds
parseTime(hours, minutes, seconds, milliseconds) ==
  (Atoi(hours) * 3600 + Atoi(minutes) * 60 + Atoi(seconds)) * 1000
  + Atoi(milliseconds)

\* parseTime on the four groups of the stamp at position i of s
StampTime(s, i) ==
  parseTime(SubSeq(s, i, i + 1), SubSeq(s, i + 3, i + 4), SubSeq(s, i + 6, i + 7),
            SubSeq(s, i + 9, i + 11))

\* regexp `<[^>]*>` ReplaceAllString(text, "") (main.go:304)
RECURSIVE StripTags(_)
StripTags(s) ==
  LET i == Index(s, <<"<">>)
  IN IF i = -1 THEN s
     ELSE LET j == Index(SubSeq(s, i + 2, Len(s)), <<">">>)
          IN IF j = -1 THEN s
             ELSE SubSeq(s, 1, i) \o StripTags(SubSeq(s, i + j + 3, Len(s)))

\* main.go:300-307: the lines after the timecode line that are not blank,
\* trimmed and without their tags
RECURSIVE TextParts(_)
TextParts(lines) ==
  IF lines = <<>> THEN <<>>
  ELSE (IF TrimSpace(Head(lines)) # <<>>
        THEN << StripTags(TrimSpace(Head(lines))) >>
        ELSE <<>>) \o TextParts(Tail(lines))

\* main.go:276-315: the entry of one block, if it has one
ParseBlock(block) ==
  LET lines == Split(TrimSpace(block), <<"\n">>)
      timed == {i \in 1..Len(lines) : TimeMatch(lines[i]) # 0}
  IN IF Len(lines) < 2 \/ timed = {} THEN <<>>
     ELSE LET timelineIdx == CHOOSE i \in timed : \A j \in timed : i <= j
              line == lines[timelineIdx]
              m == TimeMatch(line)
              textParts == TextParts(SubSeq(lines, timelineIdx + 1, Len(lines)))
          IN IF textParts = <<>> THEN <<>>
             ELSE << Seg(StampTime(line, m), StampTime(line, MatchAt(line, m)),
                         JoinSpace(textParts)) >>

\* a faulty ParseBlocks: a block without an entry ends the parsing
RECURSIVE ParseBlocksUntilBad(_)
ParseBlocksUntilBad(blocks) ==
  IF blocks = <<>> \/ ParseBlock(Head(blocks)) = <<>> THEN <<>>
  ELSE ParseBlock(Head(blocks)) \o ParseBlocksUntilBad(Tail(blocks))

\* main.go:275-316: the entries of the blocks, in the order of the blocks
RECURSIVE ParseBlocks(_)
ParseBlocks(blocks) ==
  IF blocks = <<>> THEN <<>>
  ELSE ParseBlock(Head(blocks)) \o ParseBlocks(Tail(blocks))

\* ParseSRTContent (main.go:270-318); its error is always nil
ParseSRTContent(content) == ParseBlocks(Split(content, <<"\n", "\n">>))

\* ------------------------------------------------------ pure helpers

\* a faulty ChunkOffset: the chunk's position is not added
ChunkOffsetNone(i) == 0

\* offset := float64(i * chunkDurationSec) (main.go:256, 572), in milliseconds
ChunkOffset(i) == i * chunkDurationSec * 1000

\* a faulty FirstMatch: the last matching segment instead of the first
FirstMatchLast(segs, lowerKw) ==
  LET hits == {k \in 1..Len(segs) : Contains(ToLower(segs[k].Text), lowerKw)}
  IN IF hits = {} THEN 0
     ELSE CHOOSE k \in hits : \A j \in hits : k >= j

\* 1-based position of the first segment whose lowered text contains lowerKw,
\* 0 if none: the range loops of main.go:169-173, 257-263 and 410-418
FirstMatch(segs, lowerKw) ==
  LET hits == {k \in 1..Len(segs) : Contains(ToLower(segs[k].Text), lowerKw)}
  IN IF hits = {} THEN 0
     ELSE CHOOSE k \in hits : \A j \in hits : k <= j

\* a (timestamp, found, error) return value
Ret(ts, ok, err) == [ts |-> ts, ok |-> ok, err |-> err]

\* the TranscriptResponse written to and read from transcript_segments.json,
\* by its keys in the order json.MarshalIndent writes them (main.go:42-47)
Transcript(text, dur, segs) == [text |-> text, duration |-> dur, segments |-> segs]

NoTranscript == [exists |-> FALSE, doc |-> Transcript(<<>>, 0, <<>>)]

\* a faulty searchInTranscriptJSON: no fallback to the top-level text
searchSegmentsOnly(doc, kw) ==
  LET k == FirstMatch(doc.segments, ToLower(TrimSpace(kw)))
  IN IF k # 0 THEN Ret(doc.segments[k].Start, TRUE, NoErr)
     ELSE Ret(0, FALSE, NoErr)

\* searchInTranscriptJSON (main.go:378-449) on a document GetTranscript wrote:
\* the first matching segment wins; the estimate over the top-level text is
\* the fallback.  A null "segments" (no segment at all) decodes as no element.
searchInTranscriptJSON(doc, kw) ==
  LET lowerKeyword == ToLower(TrimSpace(kw))
      k == FirstMatch(doc.segments, lowerKeyword)
  IN IF k # 0 THEN Ret(doc.segments[k].Start, TRUE, NoErr)
     ELSE IF doc.text # <<>> /\ Contains(ToLower(doc.text), lowerKeyword)
          THEN Ret(EstimatedTime(countWordsBeforeKeyword(doc.text, kw)), TRUE, NoErr)
          ELSE Ret(0, FALSE, NoErr)

\* chunkResult (main.go:537-542) and the zero value make() fills the slots with
ChunkResult(i, text, segs, err) ==
  [index |-> i, text |-> text, segments |-> segs, err |-> err]

ZeroResult == ChunkResult(0, <<>>, <<>>, FALSE)

\* a faulty OffsetSegments: only Start is offset
OffsetSegmentsStartOnly(i, segs) ==
  [k \in 1..Len(segs) |->
     [ID |-> k - 1,
      Start |-> segs[k].Start + ChunkOffset(i),
      End |-> segs[k].End,
      Text |-> segs[k].Text]]

\* main.go:571-586: the segments of chunk i, IDs by position, times offset
OffsetSegments(i, segs) ==
  [k \in 1..Len(segs) |->
     [ID |-> k - 1,
      Start |-> segs[k].Start + ChunkOffset(i),
      End |-> segs[k].End + ChunkOffset(i),
      Text |-> segs[k].Text]]

\* what worker i stores in its slot for response r (main.go:566-587)
WorkerResult(i, r) ==
  IF r.st = "err" THEN ChunkResult(i, <<>>, <<>>, TRUE)
  ELSE ChunkResult(i, r.text, OffsetSegments(i, r.segments), FALSE)

\* a faulty AnyChunkFailed: an error only when every slot holds one
AllChunksFailed(res, n) == \A i \in 0..(n - 1) : res[i].err

\* main.go:592-596: some slot holds an error
AnyChunkFailed(res, n) == \E i \in 0..(n - 1) : res[i].err

\* sort.Slice by index (main.go:599): the slots as a sequence in index order
\* (the indexes are 0..n-1, each once, when no slot holds an error)
SortByIndex(res, n) ==
  [k \in 1..n |-> CHOOSE r \in {res[i] : i \in 0..(n - 1)} : r.index = k - 1]

RECURSIVE ConcatSegments(_)
ConcatSegments(rs) ==
  IF rs = <<>> THEN <<>> ELSE Head(rs).segments \o ConcatSegments(Tail(rs))

RECURSIVE NonEmptyTexts(_)
NonEmptyTexts(rs) ==
  IF rs = <<>> THEN <<>>
  ELSE (IF Head(rs).text # <<>> THEN << Head(rs).text >> ELSE <<>>)
       \o NonEmptyTexts(Tail(rs))

\* main.go:599-611: the merged TranscriptResponse
MergeResults(res, n) ==
  LET sorted == SortByIndex(res, n)
      segs == ConcatSegments(sorted)
  IN Transcript(JoinSpace(NonEmptyTexts(sorted)),
                IF Len(segs) > 0 THEN segs[Len(segs)].End ELSE 0,
                segs)

\* a faulty SemFree: the limiter never blocks
SemNeverBlocks(held) == TRUE

\* sem <- struct{}{} can proceed (main.go:546, 551)
SemFree(held) == held < semCap

\* ---------------------------------------------------------------- state

VARIABLES
  keyword, lang, apiKeySet,      \* the request, and OPENAI_API_KEY being set
  pc, langCode, cmdErr, out,     \* SearchKeywordInSubtitles
  srt, audio, chunksEarly, chunksDir, transcript,   \* the working directory
  apc, aN, ai, aCalls, aInFlight, aResp, aRes,      \* TranscribeChunkedUntilMatch
  bpc, bN, bi, worker, bResp, results, sem, wg, merged, bRes,   \* GetTranscript
  outOfOrder,                    \* some call returned before one submitted earlier
  bLog,                          \* how often each chunk was submitted, each slot written
  hist,                          \* what the tiers of this request returned
  http,                          \* the response searchHandler has written
  fn,                            \* the run of a function called on its own
  creq, cfs                      \* two requests at once, and their directory

reqVars == <<keyword, lang, apiKeySet>>
pipeVars == <<pc, langCode, cmdErr, out>>
fsVars == <<srt, audio, chunksEarly, chunksDir, transcript>>
aVars == <<apc, aN, ai, aCalls, aInFlight, aResp, aRes>>
bVars == <<bpc, bN, bi, worker, bResp, results, sem, wg, merged, bRes, outOfOrder,
           bLog>>
sideVars == <<fn, creq, cfs>>
restVars == <<http, sideVars>>
vars == <<reqVars, pipeVars, fsVars, aVars, bVars, hist, restVars>>

NoOut == [ts |-> 0, found |-> FALSE, lang |-> <<>>, err |-> NoErr]
Out(ts, found, lg, err) == [ts |-> ts, found |-> found, lang |-> lg, err |-> err]

NoHist ==
  [captionFailed |-> FALSE, modeA |-> "none", modeB |-> "none",
   bDoc |-> Transcript(<<>>, 0, <<>>),
   started |-> <<>>,      \* the tiers in the order they were started
   captions |-> <<>>]     \* the caption file as the caption tier read it

\* nothing submitted, nothing written
NoLog ==
  [submits |-> [i \in 0..(MaxChunks + MaxParChunks) |-> 0],
   writes |-> [i \in 0..(MaxChunks + MaxParChunks) |-> 0],
   writers |-> [i \in 0..(MaxChunks + MaxParChunks) |-> {}]]

\* the locals of a tier before it is called
AIdle ==
  /\ apc = "idle" /\ aN = 0 /\ ai = 0 /\ aCalls = <<>> /\ aInFlight = 0
  /\ aResp = [i \in 0..(-1) |-> NoResp]
  /\ aRes = Ret(0, FALSE, NoErr)

BIdle ==
  /\ bpc = "idle" /\ bN = 0 /\ bi = 0 /\ sem = 0 /\ wg = 0
  /\ worker = [i \in 0..(-1) |-> "idle"]
  /\ bResp = [i \in 0..(-1) |-> NoResp]
  /\ results = [i \in 0..(-1) |-> ZeroResult]
  /\ merged = Transcript(<<>>, 0, <<>>)
  /\ bRes = [file |-> "", err |-> NoErr]
  /\ outOfOrder = FALSE
  /\ bLog = NoLog

\* no response written yet
NoHttp == [status |-> 0, found |-> FALSE, time |-> <<>>, error |-> NoErr]

\* no function is run on its own
NoFn == [op |-> "none"]

\* the requests served at the same time
Reqs == {1, 2}

\* the video a request asks about, as the mark its data carries
Video(r) == IF r = 1 THEN "v1" ELSE "v2"

\* a faulty ScratchName: every request has names of its own
ScratchNamePerRequest(r, base, lg) == [base |-> base, lang |-> lg, owner |-> r]

\* The name request r uses for a working file: the fixed strings of
\* main.go:97, 195, 198, 495, 499 and 614, and for the caption file the
\* language code (main.go:110); nothing of the request itself.
ScratchName(r, base, lg) == [base |-> base, lang |-> lg, owner |-> 0]

\* language codes of the two requests
CLangs == {"en", "fr"}

\* every name a working file may have
AllNames ==
  [base : {"temp_subs", "audio.mp3", "chunks_early", "chunks",
           "transcript_segments.json"},
   lang : CLangs \cup {""},
   owner : {0} \cup Reqs]

\* a request that has not arrived
IdleReq ==
  [pc |-> "idle", lang |-> "", wrote |-> FALSE, found |-> FALSE, data |-> "absent",
   foreign |-> FALSE, missing |-> FALSE]

\* no two requests are being served at once
NoConcurrent ==
  /\ creq = [r \in Reqs |-> IdleReq]
  /\ cfs = [n \in AllNames |-> "absent"]

\* A request arrives at a fresh working directory; its body may lack the
\* keyword.
Init ==
  /\ keyword \in Keywords \cup {<<>>}
  /\ lang \in Langs
  /\ apiKeySet \in BOOLEAN
  /\ pc = "recv" /\ langCode = <<>> /\ cmdErr = FALSE /\ out = NoOut
  /\ srt = NoFile /\ audio = FALSE /\ chunksEarly = FALSE /\ chunksDir = FALSE
  /\ transcript = NoTranscript
  /\ AIdle
  /\ BIdle
  /\ hist = NoHist
  /\ http = NoHttp
  /\ fn = NoFn
  /\ NoConcurrent

\* ------------------------------------------------------- searchHandler

\* main.go:342-350: a request without a keyword is answered 400 and the
\* pipeline is not called
RejectRequest ==
  /\ pc = "recv"
  /\ keyword = <<>>
  /\ http' = [status |-> 400, found |-> FALSE, time |-> <<>>,
              error |-> "videourl and keyword are required"]
  /\ pc' = "responded"
  /\ UNCHANGED <<reqVars, sideVars, langCode, cmdErr, out, fsVars, aVars, bVars, hist>>

\* main.go:352: the handler calls SearchKeywordInSubtitles
AcceptRequest ==
  /\ pc = "recv"
  /\ keyword # <<>>
  /\ pc' = "start"
  /\ UNCHANGED <<reqVars, restVars, langCode, cmdErr, out, fsVars, aVars, bVars,
                 hist>>

\* a faulty ResponseTime: the time is formatted whether found or not
ResponseTimeAlways(found, ts) == secondsToTimeString(ts)

\* main.go:358-366: Time is "" unless found
ResponseTime(found, ts) == IF found THEN secondsToTimeString(ts) ELSE <<>>

\* main.go:352-367: answer 500 with the error, or 200 with the result
Respond ==
  /\ pc = "done"
  /\ http' = (IF out.err # NoErr
              THEN [status |-> 500, found |-> FALSE, time |-> <<>>,
                    error |-> out.err]
              ELSE [status |-> 200, found |-> out.found,
                    time |-> ResponseTime(out.found, out.ts), error |-> NoErr])
  /\ pc' = "responded"
  /\ UNCHANGED <<reqVars, sideVars, langCode, cmdErr, out, fsVars, aVars, bVars, hist>>

\* ------------------------------------------- SearchKeywordInSubtitles

\* main.go:91-112: normalise the language, run the caption download.  yt-dlp
\* exits with or without an error, and has or has not written
\* temp_subs.<lang>.srt; the two are independent (it fails after writing when
\* a later step of its run fails).
DownloadCaptions ==
  /\ pc = "start"
  /\ langCode' = (IF ToLower(TrimSpace(lang)) = <<>> THEN <<"e", "n">>
                  ELSE ToLower(TrimSpace(lang)))
  /\ \E failed \in BOOLEAN, wrote \in BOOLEAN :
       /\ cmdErr' = failed
       /\ \/ /\ wrote
             /\ \E d \in CaptionDocs : srt' = File(d)
          \/ /\ ~wrote
             /\ srt' = srt
  /\ pc' = "read"
  /\ hist' = [hist EXCEPT !.started = Append(hist.started, "captions")]
  /\ UNCHANGED <<reqVars, restVars, out, audio, chunksEarly, chunksDir, transcript,
                 aVars, bVars>>

\* main.go:113-117: no caption file can be read; call TranscribeChunkedUntilMatch
CaptionsMissing ==
  /\ pc = "read"
  /\ ~srt.exists
  /\ pc' = "modeA"
  /\ apc' = "A_download"
  /\ hist' = [hist EXCEPT !.captionFailed = TRUE,
                          !.started = Append(hist.started, "modeA")]
  /\ UNCHANGED <<reqVars, restVars, langCode, cmdErr, out, fsVars,
                 aN, ai, aCalls, aInFlight, aResp, aRes, bVars>>

\* main.go:158-160: the file was read but the download command had failed
CaptionsCmdFailed ==
  /\ pc = "read"
  /\ srt.exists
  /\ cmdErr
  /\ out' = Out(0, FALSE, langCode, "failed to read SRT file")
  /\ pc' = "done"
  /\ UNCHANGED <<reqVars, restVars, langCode, cmdErr, fsVars, aVars, bVars, hist>>

\* main.go:163-174: parse the captions, return the start of the first entry
\* whose text contains the lowered keyword; the deferred os.Remove runs at return
CaptionsSearch ==
  /\ pc = "read"
  /\ srt.exists
  /\ ~cmdErr
  /\ LET subs == ParseSRTContent(srt.doc)
         k == FirstMatch(subs, ToLower(keyword))
     IN out' = (IF k # 0 THEN Out(subs[k].Start, TRUE, langCode, NoErr)
                ELSE Out(0, FALSE, langCode, NoErr))
  /\ srt' = NoFile
  /\ pc' = "done"
  /\ hist' = [hist EXCEPT !.captions = srt.doc]
  /\ UNCHANGED <<reqVars, restVars, langCode, cmdErr, audio, chunksEarly, chunksDir,
                 transcript, aVars, bVars>>

\* ---------------------------------------- TranscribeChunkedUntilMatch

\* the function returns r; its locals stay readable until the caller resumes
AReturn(r) ==
  /\ aRes' = r
  /\ apc' = "returned"

\* main.go:182-195: download the audio
A_Download ==
  /\ pc = "modeA" /\ apc = "A_download"
  /\ \E ok \in BOOLEAN :
       IF ok
       THEN /\ audio' = TRUE
            /\ apc' = "A_mkdir"
            /\ aRes' = aRes
       ELSE /\ audio' = audio
            /\ AReturn(Ret(0, FALSE, "audio download failed"))
  /\ UNCHANGED <<reqVars, restVars, pipeVars, srt, chunksEarly, chunksDir, transcript,
                 aN, ai, aCalls, aInFlight, aResp, bVars, hist>>

\* main.go:198-202: os.RemoveAll and os.MkdirAll of chunks_early
A_MakeDir ==
  /\ pc = "modeA" /\ apc = "A_mkdir"
  /\ \E ok \in BOOLEAN :
       IF ok
       THEN /\ chunksEarly' = TRUE
            /\ apc' = "A_segment"
            /\ aRes' = aRes
       ELSE /\ chunksEarly' = FALSE
            /\ AReturn(Ret(0, FALSE, "failed to create chunks dir"))
  /\ UNCHANGED <<reqVars, restVars, pipeVars, srt, audio, chunksDir, transcript,
                 aN, ai, aCalls, aInFlight, aResp, bVars, hist>>

\* main.go:205-228: ffmpeg fails, or leaves n chunk files (none is an error)
A_Segment(maxN) ==
  /\ pc = "modeA" /\ apc = "A_segment"
  /\ \E ok \in BOOLEAN, n \in 0..maxN :
       /\ ~ok => n = 0
       /\ IF ok /\ n > 0
          THEN /\ aN' = n
               /\ aResp' = [i \in 0..(n - 1) |-> NoResp]
               /\ apc' = "A_key"
               /\ UNCHANGED <<aRes, audio, chunksEarly>>
          ELSE /\ audio' = FALSE
               /\ chunksEarly' = FALSE
               /\ AReturn(Ret(0, FALSE, IF ok THEN "no chunks produced"
                                        ELSE "failed to segment audio"))
               /\ UNCHANGED <<aN, aResp>>
  /\ UNCHANGED <<reqVars, restVars, pipeVars, srt, chunksDir, transcript,
                 ai, aCalls, aInFlight, bVars, hist>>

\* main.go:230-237: the credential
A_CheckKey ==
  /\ pc = "modeA" /\ apc = "A_key"
  /\ IF apiKeySet
     THEN /\ apc' = "A_loop"
          /\ ai' = 0
          /\ UNCHANGED <<aRes, audio, chunksEarly>>
     ELSE /\ audio' = FALSE
          /\ chunksEarly' = FALSE
          /\ AReturn(Ret(0, FALSE, "OPENAI_API_KEY not set"))
          /\ ai' = ai
  /\ UNCHANGED <<reqVars, restVars, pipeVars, srt, chunksDir, transcript,
                 aN, aCalls, aInFlight, aResp, bVars, hist>>

\* main.go:239-250: the loop submits chunk ai
A_Call ==
  /\ pc = "modeA" /\ apc = "A_loop"
  /\ ai < aN
  /\ aCalls' = Append(aCalls, ai)
  /\ aInFlight' = aInFlight + 1
  /\ apc' = "A_calling"
  /\ UNCHANGED <<reqVars, restVars, pipeVars, fsVars, aN, ai, aResp, aRes, bVars, hist>>

\* main.go:251-264: the call returns; an error skips the chunk, a matching
\* segment ends the function, anything else goes on to the next chunk
A_CallReturn ==
  /\ pc = "modeA" /\ apc = "A_calling"
  /\ aInFlight' = aInFlight - 1
  /\ \E r \in Responses :
       /\ aResp' = [aResp EXCEPT ![ai] = r]
       /\ LET lowerKeyword == ToLower(TrimSpace(keyword))
              k == IF r.st = "err" THEN 0 ELSE FirstMatch(r.segments, lowerKeyword)
          IN IF k # 0
             THEN /\ audio' = FALSE
                  /\ chunksEarly' = FALSE
                  /\ AReturn(Ret(r.segments[k].Start + ChunkOffset(ai), TRUE, NoErr))
                  /\ ai' = ai
             ELSE /\ ai' = ai + 1
                  /\ apc' = "A_loop"
                  /\ UNCHANGED <<aRes, audio, chunksEarly>>
  /\ UNCHANGED <<reqVars, restVars, pipeVars, srt, chunksDir, transcript,
                 aN, aCalls, bVars, hist>>

\* a faulty A_Finish: an error when no chunk could be transcribed
A_FinishReportsFailure ==
  /\ pc = "modeA" /\ apc = "A_loop"
  /\ ai >= aN
  /\ audio' = FALSE
  /\ chunksEarly' = FALSE
  /\ AReturn(IF \A i \in DOMAIN aResp : aResp[i].st = "err"
             THEN Ret(0, FALSE, "all chunks failed")
             ELSE Ret(0, FALSE, NoErr))
  /\ UNCHANGED <<reqVars, restVars, pipeVars, srt, chunksDir, transcript,
                 aN, ai, aCalls, aInFlight, aResp, bVars, hist>>

\* main.go:266-268: every chunk was tried
A_Finish ==
  /\ pc = "modeA" /\ apc = "A_loop"
  /\ ai >= aN
  /\ audio' = FALSE
  /\ chunksEarly' = FALSE
  /\ AReturn(Ret(0, FALSE, NoErr))
  /\ UNCHANGED <<reqVars, restVars, pipeVars, srt, chunksDir, transcript,
                 aN, ai, aCalls, aInFlight, aResp, bVars, hist>>

\* a faulty ModeAMatched: a match of Mode A is not taken
ModeAMatchedNever(r) == FALSE

\* main.go:117: err == nil && ok
ModeAMatched(r) == r.err = NoErr /\ r.ok

\* main.go:117-123: a match is returned; an error is logged; in both other
\* cases GetTranscript is called
AfterModeA ==
  /\ pc = "modeA" /\ apc = "returned"
  /\ hist' = [hist EXCEPT !.modeA = IF aRes.err # NoErr THEN "error"
                                    ELSE IF aRes.ok THEN "found" ELSE "notfound",
                          !.started = IF ModeAMatched(aRes) THEN hist.started
                                      ELSE Append(hist.started, "modeB")]
  /\ IF ModeAMatched(aRes)
     THEN /\ out' = Out(aRes.ts, TRUE, langCode, NoErr)
          /\ pc' = "done"
          /\ bpc' = bpc
     ELSE /\ out' = out
          /\ pc' = "modeB"
          /\ bpc' = "B_download"
  /\ apc' = "idle" /\ aN' = 0 /\ ai' = 0 /\ aCalls' = <<>> /\ aInFlight' = 0
  /\ aResp' = [i \in 0..(-1) |-> NoResp]
  /\ aRes' = Ret(0, FALSE, NoErr)
  /\ UNCHANGED <<reqVars, restVars, langCode, cmdErr, fsVars,
                 bN, bi, worker, bResp, results, sem, wg, merged, bRes, outOfOrder, bLog>>

\* ------------------------------------------------------- GetTranscript

\* the function returns (file, err); its locals stay readable until the
\* caller resumes
BReturn(file, err) ==
  /\ bRes' = [file |-> file, err |-> err]
  /\ bpc' = "returned"

\* main.go:478-496: download the audio
B_Download ==
  /\ pc = "modeB" /\ bpc = "B_download"
  /\ \E ok \in BOOLEAN :
       IF ok
       THEN /\ audio' = TRUE
            /\ bpc' = "B_mkdir"
            /\ bRes' = bRes
       ELSE /\ audio' = audio
            /\ BReturn("", "audio download failed")
  /\ UNCHANGED <<reqVars, restVars, pipeVars, srt, chunksEarly, chunksDir, transcript,
                 aVars, bN, bi, worker, bResp, results, sem, wg, merged, outOfOrder, bLog, hist>>

\* main.go:499-503: os.RemoveAll and os.MkdirAll of chunks
B_MakeDir ==
  /\ pc = "modeB" /\ bpc = "B_mkdir"
  /\ \E ok \in BOOLEAN :
       IF ok
       THEN /\ chunksDir' = TRUE
            /\ bpc' = "B_segment"
            /\ bRes' = bRes
       ELSE /\ chunksDir' = FALSE
            /\ BReturn("", "failed to create chunks dir")
  /\ UNCHANGED <<reqVars, restVars, pipeVars, srt, audio, chunksEarly, transcript,
                 aVars, bN, bi, worker, bResp, results, sem, wg, merged, outOfOrder, bLog, hist>>

\* main.go:508-529: ffmpeg fails, or leaves n chunk files (none is an error);
\* neither error path removes anything
B_Segment(maxN) ==
  /\ pc = "modeB" /\ bpc = "B_segment"
  /\ \E ok \in BOOLEAN, n \in 0..maxN :
       /\ ~ok => n = 0
       /\ IF ok /\ n > 0
          THEN /\ bN' = n
               /\ bpc' = "B_key"
               /\ bRes' = bRes
          ELSE /\ bN' = bN
               /\ BReturn("", IF ok THEN "no chunks produced"
                              ELSE "failed to segment audio")
  /\ UNCHANGED <<reqVars, restVars, pipeVars, fsVars, aVars,
                 bi, worker, bResp, results, sem, wg, merged, outOfOrder, bLog, hist>>

\* main.go:531-546: the credential, then the slots, the wait group, the limiter
B_CheckKey ==
  /\ pc = "modeB" /\ bpc = "B_key"
  /\ IF apiKeySet
     THEN /\ results' = [i \in 0..(bN - 1) |-> ZeroResult]
          /\ worker' = [i \in 0..(bN - 1) |-> "idle"]
          /\ bResp' = [i \in 0..(bN - 1) |-> NoResp]
          /\ bi' = 0 /\ sem' = 0 /\ wg' = 0
          /\ bpc' = "B_dispatch"
          /\ bRes' = bRes
     ELSE /\ BReturn("", "OPENAI_API_KEY not set")
          /\ UNCHANGED <<results, worker, bResp, bi, sem, wg>>
  /\ UNCHANGED <<reqVars, restVars, pipeVars, fsVars, aVars, bN, merged, outOfOrder, bLog, hist>>

\* main.go:548-552: wg.Add(1), take a limiter slot (blocks while all are
\* held), start the goroutine of chunk bi, which makes its call
B_Dispatch ==
  /\ pc = "modeB" /\ bpc = "B_dispatch"
  /\ bi < bN
  /\ SemFree(sem)
  /\ wg' = wg + 1
  /\ sem' = sem + 1
  /\ worker' = [worker EXCEPT ![bi] = "inflight"]
  /\ bLog' = [bLog EXCEPT !.submits[bi] = @ + 1]
  /\ bi' = bi + 1
  /\ UNCHANGED <<reqVars, restVars, pipeVars, fsVars, aVars,
                 bpc, bN, bResp, results, merged, bRes, outOfOrder, hist>>

\* a faulty SlotOf: the goroutine reads the variable of the loop, which
\* holds the index of the chunk submitted last
SlotOfLoopVariable(i) == bi - 1

\* main.go:549: i, file := i, file; the goroutine of chunk i has its own i
SlotOf(i) == i

\* main.go:555-587: the call of worker i returns r; the worker fills its slot
B_CallReturns(i, r) ==
  /\ pc = "modeB" /\ bpc = "B_dispatch"
  /\ worker[i] = "inflight"
  /\ bResp' = [bResp EXCEPT ![i] = r]
  /\ results' = [results EXCEPT ![SlotOf(i)] = WorkerResult(SlotOf(i), r)]
  /\ worker' = [worker EXCEPT ![i] = "wrote"]
  /\ bLog' = [bLog EXCEPT !.writes[SlotOf(i)] = @ + 1,
                          !.writers[SlotOf(i)] = @ \cup {i}]
  /\ outOfOrder' = (outOfOrder \/ \E j \in 0..(i - 1) : worker[j] = "inflight")
  /\ UNCHANGED <<reqVars, restVars, pipeVars, fsVars, aVars,
                 bpc, bN, bi, sem, wg, merged, bRes, hist>>

\* a faulty B_WorkerExit: the limiter slot is not given back
B_WorkerExitKeepsSlot(i) ==
  /\ pc = "modeB" /\ bpc = "B_dispatch"
  /\ worker[i] = "wrote"
  /\ wg' = wg - 1
  /\ worker' = [worker EXCEPT ![i] = "done"]
  /\ UNCHANGED <<reqVars, restVars, pipeVars, fsVars, aVars,
                 bpc, bN, bi, bResp, results, sem, merged, bRes, outOfOrder, bLog, hist>>

\* main.go:553-554: the deferred <-sem and wg.Done() of worker i
B_WorkerExit(i) ==
  /\ pc = "modeB" /\ bpc = "B_dispatch"
  /\ worker[i] = "wrote"
  /\ sem' = sem - 1
  /\ wg' = wg - 1
  /\ worker' = [worker EXCEPT ![i] = "done"]
  /\ UNCHANGED <<reqVars, restVars, pipeVars, fsVars, aVars,
                 bpc, bN, bi, bResp, results, merged, bRes, outOfOrder, bLog, hist>>

\* main.go:590: wg.Wait() returns once the loop is over and every worker is done
B_Wait ==
  /\ pc = "modeB" /\ bpc = "B_dispatch"
  /\ bi = bN
  /\ wg = 0
  /\ bpc' = "B_check"
  /\ UNCHANGED <<reqVars, restVars, pipeVars, fsVars, aVars,
                 bN, bi, worker, bResp, results, sem, wg, merged, bRes, outOfOrder, bLog, hist>>

\* main.go:592-611: a slot with an error ends the function; else merge
B_CheckAndMerge ==
  /\ pc = "modeB" /\ bpc = "B_check"
  /\ IF AnyChunkFailed(results, bN)
     THEN /\ BReturn("", "chunk transcription failed")
          /\ merged' = merged
     ELSE /\ merged' = MergeResults(results, bN)
          /\ bpc' = "B_persist"
          /\ bRes' = bRes
  /\ UNCHANGED <<reqVars, restVars, pipeVars, fsVars, aVars,
                 bN, bi, worker, bResp, results, sem, wg, outOfOrder, bLog, hist>>

\* main.go:614-621: write transcript_segments.json
B_Persist ==
  /\ pc = "modeB" /\ bpc = "B_persist"
  /\ \E ok \in BOOLEAN :
       IF ok
       THEN /\ transcript' = [exists |-> TRUE, doc |-> merged]
            /\ bpc' = "B_cleanup"
            /\ bRes' = bRes
       ELSE /\ transcript' = transcript
            /\ BReturn("", "failed to save transcript")
  /\ UNCHANGED <<reqVars, restVars, pipeVars, srt, audio, chunksEarly, chunksDir,
                 aVars, bN, bi, worker, bResp, results, sem, wg, merged, outOfOrder, bLog, hist>>

\* main.go:623-627: remove the audio and the chunks, return the file name
B_Cleanup ==
  /\ pc = "modeB" /\ bpc = "B_cleanup"
  /\ audio' = FALSE
  /\ chunksDir' = FALSE
  /\ BReturn("transcript_segments.json", NoErr)
  /\ UNCHANGED <<reqVars, restVars, pipeVars, srt, chunksEarly, transcript,
                 aVars, bN, bi, worker, bResp, results, sem, wg, merged, outOfOrder, bLog, hist>>

\* main.go:123-153: GetTranscript has returned.  Its error, or a transcript
\* file that cannot be read, ends the request with an error.  The name it
\* returns always ends in ".json", so the file is searched with
\* searchInTranscriptJSON: a match is returned at once; the os.Remove of the
\* file is deferred only on the way to the final return.
AfterGetTranscript ==
  /\ pc = "modeB" /\ bpc = "returned"
  /\ LET r == searchInTranscriptJSON(transcript.doc, keyword)
     IN IF bRes.err # NoErr
        THEN /\ out' = Out(0, FALSE, langCode, "failed to get transcript")
             /\ hist' = [hist EXCEPT !.modeB = bRes.err]
             /\ transcript' = transcript
        ELSE /\ hist' = [hist EXCEPT !.modeB = "ok", !.bDoc = merged]
             /\ IF ~transcript.exists
                THEN /\ out' = Out(0, FALSE, langCode, "failed to read transcript file")
                     /\ transcript' = transcript
                ELSE IF r.err = NoErr /\ r.ok
                THEN /\ out' = Out(r.ts, TRUE, langCode, NoErr)
                     /\ transcript' = transcript
                ELSE IF r.err # NoErr
                THEN /\ out' = Out(0, FALSE, langCode, "failed to parse JSON transcript")
                     /\ transcript' = transcript
                ELSE /\ out' = Out(0, FALSE, langCode, NoErr)
                     /\ transcript' = NoTranscript
  /\ pc' = "done"
  /\ bpc' = "idle" /\ bN' = 0 /\ bi' = 0 /\ sem' = 0 /\ wg' = 0
  /\ worker' = [i \in 0..(-1) |-> "idle"]
  /\ bResp' = [i \in 0..(-1) |-> NoResp]
  /\ results' = [i \in 0..(-1) |-> ZeroResult]
  /\ merged' = Transcript(<<>>, 0, <<>>)
  /\ bRes' = [file |-> "", err |-> NoErr]
  /\ outOfOrder' = FALSE
  /\ bLog' = NoLog
  /\ UNCHANGED <<reqVars, restVars, langCode, cmdErr, srt, audio, chunksEarly, chunksDir,
                 aVars>>

\* ------------------------------------------------------- specifications

ModeA(maxN) ==
  \/ A_Download \/ A_MakeDir \/ A_Segment(maxN) \/ A_CheckKey
  \/ A_Call \/ A_CallReturn \/ A_Finish

\* GetTranscript with at most maxN chunks, the calls returning one of resps
ModeBOf(maxN, resps) ==
  \/ B_Download \/ B_MakeDir \/ B_Segment(maxN) \/ B_CheckKey
  \/ B_Dispatch
  \/ \E i \in DOMAIN worker : \E r \in resps : B_CallReturns(i, r)
  \/ \E i \in DOMAIN worker : B_WorkerExit(i)
  \/ B_Wait \/ B_CheckAndMerge \/ B_Persist \/ B_Cleanup

ModeB(maxN) == ModeBOf(maxN, Responses)

Next ==
  \/ RejectRequest \/ AcceptRequest
  \/ DownloadCaptions \/ CaptionsMissing \/ CaptionsCmdFailed \/ CaptionsSearch
  \/ ModeA(MaxChunks)
  \/ AfterModeA
  \/ ModeB(MaxChunks)
  \/ AfterGetTranscript
  \/ Respond

\* one request, from its arrival to its return
Spec == Init /\ [][Next]_vars

\* GetTranscript alone: the state in which SearchKeywordInSubtitles calls it
\* (main.go:123), with more chunks than the limiter has slots
InitB ==
  /\ keyword = <<"A">>
  /\ lang = <<>>
  /\ apiKeySet \in BOOLEAN
  /\ pc = "modeB" /\ langCode = <<"e", "n">> /\ cmdErr = FALSE /\ out = NoOut
  /\ srt = NoFile /\ audio = FALSE /\ chunksEarly = FALSE /\ chunksDir = FALSE
  /\ transcript = NoTranscript
  /\ AIdle
  /\ bpc = "B_download" /\ bN = 0 /\ bi = 0 /\ sem = 0 /\ wg = 0
  /\ worker = [i \in 0..(-1) |-> "idle"]
  /\ bResp = [i \in 0..(-1) |-> NoResp]
  /\ results = [i \in 0..(-1) |-> ZeroResult]
  /\ merged = Transcript(<<>>, 0, <<>>)
  /\ bRes = [file |-> "", err |-> NoErr]
  /\ outOfOrder = FALSE
  /\ bLog = NoLog
  /\ hist = [NoHist EXCEPT !.captionFailed = TRUE, !.modeA = "notfound",
                           !.started = <<"captions", "modeA", "modeB">>]
  /\ http = NoHttp
  /\ fn = NoFn
  /\ NoConcurrent

NextB == ModeB(MaxParChunks) \/ AfterGetTranscript

SpecB == InitB /\ [][NextB]_vars

\* What the calls return when only the return matters: a transcript or an
\* error.
FairResponses == {RespOne, RespErr}

NextBFair == ModeBOf(MaxParChunks, FairResponses) \/ AfterGetTranscript

\* The Go scheduler runs every goroutine that can take a step: the loop of
\* main.go:548-589 and wg.Wait(), and each worker's deferred calls; the
\* external commands return; and every transcription call returns (the
\* assumption under which termination is claimed).
FairB ==
  /\ WF_vars(B_Download \/ B_MakeDir \/ B_Segment(MaxParChunks) \/ B_CheckKey)
  /\ WF_vars(B_Dispatch)
  /\ \A i \in 0..MaxParChunks :
       WF_vars(i \in DOMAIN worker /\ \E r \in FairResponses : B_CallReturns(i, r))
  /\ \A i \in 0..MaxParChunks : WF_vars(i \in DOMAIN worker /\ B_WorkerExit(i))
  /\ WF_vars(B_Wait)
  /\ WF_vars(B_CheckAndMerge \/ B_Persist \/ B_Cleanup)
  /\ WF_vars(AfterGetTranscript)

\* GetTranscript alone, every goroutine scheduled and every call returning
SpecBFair == InitB /\ [][NextBFair]_vars /\ FairB

\* --------------------------------------------------------------- claims

\* The keyword as the transcription tiers look it up: trimmed and lowered
\* (main.go:237, 386).
HoldsKeyword(text) == Contains(ToLower(text), ToLower(TrimSpace(keyword)))

SomeSegmentHolds(segs) == \E k \in 1..Len(segs) : HoldsKeyword(segs[k].Text)

\* C1: Mode A submits the chunks in increasing index order, one at a time; as
\* soon as the response for chunk i has a segment containing the keyword
\* (case-insensitively) the function has returned found with the start of the
\* first such segment plus i*300 seconds, whether or not earlier chunks failed,
\* and no call was made for any chunk after i.
C1_EarlyExitInOrder ==
  pc = "modeA" =>
    /\ \A k \in 1..Len(aCalls) : aCalls[k] = k - 1
    /\ aInFlight = (IF apc = "A_calling" THEN 1 ELSE 0)
    /\ \A i \in DOMAIN aResp :
         (aResp[i].st = "ok" /\ SomeSegmentHolds(aResp[i].segments)) =>
           LET segs == aResp[i].segments
           IN /\ apc = "returned"
              /\ Len(aCalls) = i + 1
              /\ aRes.ok /\ aRes.err = NoErr
              /\ \E k \in 1..Len(segs) :
                   /\ HoldsKeyword(segs[k].Text)
                   /\ \A j \in 1..(k - 1) : ~HoldsKeyword(segs[j].Text)
                   /\ aRes.ts = segs[k].Start + i * 300 * 1000
    /\ (apc = "returned" /\ aRes.ok) =>
         \E i \in DOMAIN aResp :
           aResp[i].st = "ok" /\ SomeSegmentHolds(aResp[i].segments)

\* Chunk 0 failed and was skipped, chunk 1 had no match, chunk 2 matched at
\* local time 5 s: found at 2*300 + 5 s after exactly three calls.
C1_Witness ==
  /\ pc = "modeA" /\ apc = "returned"
  /\ aN = 3 /\ Len(aCalls) = 3
  /\ aResp[0].st = "err" /\ aResp[1].st = "ok"
  /\ aRes = Ret(605000, TRUE, NoErr)

\* C2: when the caption tier failed and Mode A failed or found nothing, a
\* Mode B transcript that contains the keyword gives FOUND, without error, at
\* the time derived from that transcript (the start of its first segment that
\* holds the keyword, else the word-offset estimate over its text); an error
\* of Mode A never ends the request.
DocContainsKeyword(doc) ==
  \/ Contains(ToLower(doc.text), ToLower(keyword))
  \/ \E k \in 1..Len(doc.segments) :
       Contains(ToLower(doc.segments[k].Text), ToLower(keyword))

DerivedTime(doc) ==
  IF SomeSegmentHolds(doc.segments)
  THEN LET k == CHOOSE k \in 1..Len(doc.segments) :
                  /\ HoldsKeyword(doc.segments[k].Text)
                  /\ \A j \in 1..(k - 1) : ~HoldsKeyword(doc.segments[j].Text)
       IN doc.segments[k].Start
  ELSE EstimatedTime(countWordsBeforeKeyword(doc.text, keyword))

C2_ModeBFoundAfterFailures ==
  /\ (/\ pc = "done"
      /\ hist.captionFailed
      /\ hist.modeA \in {"error", "notfound"}
      /\ hist.modeB = "ok"
      /\ DocContainsKeyword(hist.bDoc))
     => /\ out.found
        /\ out.err = NoErr
        /\ out.ts = DerivedTime(hist.bDoc)
  /\ hist.modeA = "error" =>
       /\ pc \in {"modeB", "done", "responded"}
       /\ pc \in {"done", "responded"} => hist.modeB # "none"

\* Mode A ended with an error, Mode B found the keyword only in the joined text.
C2_Witness ==
  /\ pc = "done"
  /\ hist.captionFailed /\ hist.modeA = "error" /\ hist.modeB = "ok"
  /\ ~SomeSegmentHolds(hist.bDoc.segments)
  /\ out.found /\ out.err = NoErr /\ out.ts = 800

\* C3: in Mode B a failed chunk makes the whole operation an error: nothing is
\* merged, persisted or returned, and the request ends with an error, neither
\* found nor not-found, whatever the other chunks returned and in whatever
\* order the calls completed.
C3_ChunkFailureIsFatal ==
  /\ (pc = "modeB" /\ bpc \in {"B_persist", "B_cleanup"}) =>
       \A i \in DOMAIN bResp : bResp[i].st = "ok"
  /\ (pc = "modeB" /\ bpc = "returned"
        /\ \E i \in DOMAIN bResp : bResp[i].st = "err") =>
       /\ bRes.err = "chunk transcription failed"
       /\ bRes.file = ""
       /\ ~transcript.exists
  /\ (pc = "done" /\ hist.modeB = "chunk transcription failed") =>
       /\ out.err # NoErr
       /\ ~out.found /\ out.ts = 0
       /\ ~transcript.exists

\* Exactly one of three chunks failed.
C3_Witness ==
  /\ pc = "modeB" /\ bpc = "returned"
  /\ DOMAIN bResp = 0..2
  /\ bResp[0].st = "ok" /\ bResp[1].st = "err" /\ bResp[2].st = "ok"

\* C4: in Mode B at most 4 transcription calls are in flight at any time.
InFlight == Cardinality({i \in DOMAIN worker : worker[i] = "inflight"})

C4_AtMostFourInFlight == InFlight <= 4

\* Four calls in flight while a fifth chunk waits for a slot.
C4_Witness == bN > 4 /\ bi < bN /\ InFlight = 4

\* C5: when all chunks succeed, the merged transcript is the per-chunk results
\* in increasing chunk index, every segment of chunk i shifted by i*300
\* seconds, the texts joined in the same order: a function of the responses
\* alone, so the same for every order in which the calls complete.
RECURSIVE ShiftedFrom(_)
ShiftedFrom(i) ==
  IF i >= bN THEN <<>>
  ELSE [k \in 1..Len(bResp[i].segments) |->
          [ID |-> k - 1,
           Start |-> bResp[i].segments[k].Start + i * 300 * 1000,
           End |-> bResp[i].segments[k].End + i * 300 * 1000,
           Text |-> bResp[i].segments[k].Text]]
       \o ShiftedFrom(i + 1)

RECURSIVE TextsFrom(_)
TextsFrom(i) ==
  IF i >= bN THEN <<>>
  ELSE (IF bResp[i].text # <<>> THEN << bResp[i].text >> ELSE <<>>)
       \o TextsFrom(i + 1)

Merged ==
  /\ pc = "modeB"
  /\ \/ bpc \in {"B_persist", "B_cleanup"}
     \/ bpc = "returned" /\ bRes.err \in {NoErr, "failed to save transcript"}

C5_MergeByIndex ==
  Merged =>
    /\ merged.segments = ShiftedFrom(0)
    /\ merged.text = JoinSpace(TextsFrom(0))
    /\ transcript.exists => transcript.doc = merged

\* A later chunk's call returned before an earlier one's; the chunks differ.
C5_Witness ==
  /\ Merged /\ bpc = "returned"
  /\ outOfOrder
  /\ bN = 3
  /\ bResp[0] = RespOne /\ bResp[1] = RespTwo /\ bResp[2] = RespOne

\* C10: every transcript Mode B persists has its segments in non-decreasing
\* order of start, across chunk boundaries too, and a duration equal to the
\* absolute end of the last segment of the last chunk that has one, 0 when
\* there is no segment.
C10_TranscriptInvariant ==
  transcript.exists =>
    LET segs == transcript.doc.segments
        spoken == {i \in DOMAIN bResp : bResp[i].segments # <<>>}
    IN /\ \A p, q \in 1..Len(segs) : p < q => segs[p].Start <= segs[q].Start
       /\ transcript.doc.duration =
            (IF segs = <<>> THEN 0 ELSE segs[Len(segs)].End)
       /\ (pc = "modeB" /\ bpc \in {"B_cleanup", "returned"}) =>
            transcript.doc.duration =
              (IF spoken = {} THEN 0
               ELSE LET last == CHOOSE i \in spoken : \A j \in spoken : j <= i
                        ls == bResp[last].segments
                    IN ls[Len(ls)].End + last * 300 * 1000)

\* Two chunks: the segment of chunk 1 that starts at local 5 s is third, at
\* 305 s, and the duration is its absolute end, 590 s.
C10_Witness ==
  /\ transcript.exists
  /\ pc = "modeB" /\ bpc = "B_cleanup"
  /\ bN = 2 /\ bResp[0] = RespTwo /\ bResp[1] = RespOne
  /\ Len(transcript.doc.segments) = 3
  /\ transcript.doc.segments[3].Start = 305000
  /\ transcript.doc.duration = 590000

\* C6: every failure of the caption download falls through to the
\* transcription tiers and is never itself returned as an error, also when a
\* file temp_subs.<lang>.srt is on disk.
C6_DownloadFailureFallsThrough ==
  (cmdErr /\ pc \in {"modeA", "modeB", "done"}) =>
    /\ hist.captionFailed
    /\ out.err # "failed to read SRT file"

\* C7, as stated: in Mode A a failed chunk is skipped and a later match is
\* still found; the function returns an error once every chunk has failed,
\* and only then; with a chunk transcribed and none matching it returns
\* not-found, no error.
C7_TotalFailureIsError ==
  (pc = "modeA" /\ apc = "returned" /\ Len(aCalls) > 0) =>
    LET failedAll == \A i \in DOMAIN aResp : aResp[i].st = "err"
        matched == \E i \in DOMAIN aResp :
                     aResp[i].st = "ok" /\ SomeSegmentHolds(aResp[i].segments)
    IN /\ matched => aRes.ok /\ aRes.err = NoErr
       /\ failedAll <=> aRes.err # NoErr
       /\ (~failedAll /\ ~matched) => aRes = Ret(0, FALSE, NoErr)

\* C7, amended: in Mode A a failed chunk is skipped and a later match is still
\* found; once the loop has submitted a chunk the function never returns an
\* error: with no chunk matching it returns not-found without error, also
\* when every chunk's transcription has failed.
C7_FailuresAreSkipped ==
  (pc = "modeA" /\ apc = "returned" /\ Len(aCalls) > 0) =>
    LET matched == \E i \in DOMAIN aResp :
                     aResp[i].st = "ok" /\ SomeSegmentHolds(aResp[i].segments)
    IN /\ aRes.err = NoErr
       /\ matched => aRes.ok
       /\ ~matched => aRes = Ret(0, FALSE, NoErr)
       /\ \A i \in DOMAIN aResp :
            (aResp[i].st = "err" /\ i + 1 < aN /\ ~aRes.ok) => aResp[i + 1].st # "none"

\* Both chunks failed, both were submitted, and the result is not-found.
C7_Witness ==
  /\ pc = "modeA" /\ apc = "returned"
  /\ aN = 2 /\ Len(aCalls) = 2
  /\ aResp[0].st = "err" /\ aResp[1].st = "err"
  /\ aRes = Ret(0, FALSE, NoErr)

\* C8: on each of the exit paths the claim lists, a tier that returns has
\* removed the audio file and the chunk directory it created.
C8_TierArtifactsRemoved ==
  /\ (pc = "modeA" /\ apc = "returned"
        /\ aRes.err \in {NoErr, "audio download failed", "failed to segment audio",
                         "no chunks produced", "OPENAI_API_KEY not set"}) =>
       ~audio /\ ~chunksEarly
  /\ (pc = "modeB" /\ bpc = "returned"
        /\ bRes.err \in {NoErr, "failed to segment audio", "no chunks produced",
                         "OPENAI_API_KEY not set", "chunk transcription failed",
                         "failed to save transcript"}) =>
       ~audio /\ ~chunksDir

\* C9: when the request returns after Mode B produced transcript_segments.json,
\* the file has been removed, whatever the outcome.
C9_TranscriptRemoved ==
  (pc = "done" /\ hist.modeB = "ok") => ~transcript.exists

\* ------------------------------------------------------------- C11

\* C11: the result is never partially populated.  Once
\* SearchKeywordInSubtitles has returned, an error comes with found = FALSE
\* and timestamp 0, and found = FALSE comes with timestamp 0; the response
\* is 200 exactly when the pipeline ran and returned no error, it then
\* repeats found and carries a non-empty time string iff found is true;
\* any other response carries an error and neither found nor a time.
C11_ResultNeverPartial ==
  /\ pc \in {"done", "responded"} /\ keyword # <<>> =>
       /\ out.err # NoErr => (~out.found /\ out.ts = 0)
       /\ ~out.found => out.ts = 0
  /\ pc = "responded" =>
       /\ http.status \in {200, 400, 500}
       /\ http.status = 200 <=> (keyword # <<>> /\ out.err = NoErr)
       /\ http.status = 200 =>
            /\ http.found = out.found
            /\ http.time # <<>> <=> http.found
            /\ http.error = NoErr
       /\ http.status # 200 =>
            /\ ~http.found /\ http.time = <<>> /\ http.error # NoErr

\* a found result with a timestamp has been answered with its time string
C11_Witness ==
  /\ pc = "responded" /\ http.status = 200 /\ http.found
  /\ out.ts > 0 /\ http.time = secondsToTimeString(out.ts)

\* ------------------------------------- searchInTranscriptJSON, step by step

\* everything but fn: the state of the request, left alone when a function
\* is run on its own
progVars == <<reqVars, pipeVars, fsVars, aVars, bVars, hist, http, creq, cfs>>

\* the request followed alone is not being served
NoSingleRequest ==
  /\ keyword = <<>> /\ lang = <<>> /\ apiKeySet = FALSE
  /\ pc = "idle" /\ langCode = <<>> /\ cmdErr = FALSE /\ out = NoOut
  /\ srt = NoFile /\ audio = FALSE /\ chunksEarly = FALSE /\ chunksDir = FALSE
  /\ transcript = NoTranscript
  /\ AIdle
  /\ BIdle
  /\ hist = NoHist
  /\ http = NoHttp

\* no request is being served
NoRequest == NoSingleRequest /\ NoConcurrent

\* one member of the top-level JSON object: its key and its value, a string,
\* a number, or an array of segments (null: the array is written as null)
Member(key, str, num, arr, null) ==
  [key |-> key, str |-> str, num |-> num, arr |-> arr, null |-> null]

\* json.MarshalIndent of a TranscriptResponse (main.go:42-47, 612): the keys
\* in the order of the struct's fields; a nil slice is written as null
EncodeTranscript(t) ==
  << Member("text", t.text, 0, <<>>, FALSE),
     Member("language", <<>>, 0, <<>>, FALSE),
     Member("duration", <<>>, t.duration, <<>>, FALSE),
     Member("segments", <<>>, 0, t.segments, t.segments = <<>>) >>

\* the document GetTranscript writes when the chunks got the responses rs
MergedOf(rs) ==
  MergeResults([i \in 0..(Len(rs) - 1) |-> WorkerResult(i, rs[i + 1])], Len(rs))

\* two more responses: a phrase ("a a") then lies across the chunk boundary
\* at the very end of the joined text
RespTail ==
  [st |-> "ok",
   text |-> <<"b", " ", "a">>,
   segments |-> << Seg(1000, 200000, <<"b", " ", "a">>) >>]

RespWord ==
  [st |-> "ok",
   text |-> <<"a">>,
   segments |-> << Seg(2000, 3000, <<"a">>) >>]

\* Documents searchInTranscriptJSON is given: what GetTranscript writes for
\* some responses, and one object whose "segments" precede its "text".
SearchDocs ==
  { EncodeTranscript(MergedOf(<<RespTwo>>)),
    EncodeTranscript(MergedOf(<<RespTwo, RespOne>>)),
    EncodeTranscript(MergedOf(<<RespOne, RespTwo, RespTwo>>)),
    EncodeTranscript(MergedOf(<<RespSilent>>)),
    EncodeTranscript(MergedOf(<<RespTail, RespWord>>)),
    << Member("segments", <<>>, 0, MergedOf(<<RespOne>>).segments, FALSE),
       Member("text", MergedOf(<<RespOne>>).text, 0, <<>>, FALSE) >> }

\* Keywords it is given: those of the requests, and a phrase with trailing
\* white space.
SearchKeywords == Keywords \cup { <<"a", " ", "a", " ">> }

\* the function's locals before its first token (main.go:385-387)
SearchStart(doc, kw) ==
  [op |-> "search", doc |-> doc, kw |-> kw, st |-> "keys", pos |-> 1, seg |-> 0,
   fullText |-> <<>>, decoded |-> 0, via |-> "none", res |-> Ret(0, FALSE, NoErr)]

InitSearch ==
  /\ NoRequest
  /\ \E doc \in SearchDocs, kw \in SearchKeywords : fn = SearchStart(doc, kw)

\* a faulty SegmentMatches: the segment's text is not lowered
SegmentMatchesExactCase(seg, lowerKeyword) == Contains(seg.Text, lowerKeyword)

\* main.go:415: strings.Contains(strings.ToLower(seg.Text), lowerKeyword)
SegmentMatches(seg, lowerKeyword) == Contains(ToLower(seg.Text), lowerKeyword)

\* main.go:398-405, 423-439: the next key of the object; "text" is kept for
\* the fallback, "segments" opens the array ('[' or null is consumed), the
\* value of any other key is skipped
S_NextKey ==
  /\ fn.op = "search" /\ fn.st = "keys"
  /\ fn.pos <= Len(fn.doc)
  /\ LET m == fn.doc[fn.pos]
     IN fn' = IF m.key = "segments"
              THEN [fn EXCEPT !.st = "segments", !.seg = 0]
              ELSE IF m.key = "text"
              THEN [fn EXCEPT !.fullText = m.str, !.pos = fn.pos + 1]
              ELSE [fn EXCEPT !.pos = fn.pos + 1]
  /\ UNCHANGED progVars

\* main.go:410-418: decode one more element of the array; return its start
\* when its text holds the keyword
S_DecodeSegment ==
  /\ fn.op = "search" /\ fn.st = "segments"
  /\ fn.seg < Len(fn.doc[fn.pos].arr)
  /\ LET seg == fn.doc[fn.pos].arr[fn.seg + 1]
         lowerKeyword == ToLower(TrimSpace(fn.kw))
     IN fn' = IF SegmentMatches(seg, lowerKeyword)
              THEN [fn EXCEPT !.seg = fn.seg + 1, !.decoded = fn.decoded + 1,
                              !.st = "done", !.via = "segment",
                              !.res = Ret(seg.Start, TRUE, NoErr)]
              ELSE [fn EXCEPT !.seg = fn.seg + 1, !.decoded = fn.decoded + 1]
  /\ UNCHANGED progVars

\* main.go:410, 419-422: no element is left; the closing token is consumed
\* (after a null that is the '}' of the object, "segments" being its last
\* key, and the loop over the keys then ends all the same)
S_EndSegments ==
  /\ fn.op = "search" /\ fn.st = "segments"
  /\ fn.seg = Len(fn.doc[fn.pos].arr)
  /\ fn' = [fn EXCEPT !.st = "keys", !.pos = fn.pos + 1]
  /\ UNCHANGED progVars

\* main.go:441-448: no key is left; estimate from the top-level text, or
\* return not found
S_Fallback ==
  /\ fn.op = "search" /\ fn.st = "keys"
  /\ fn.pos > Len(fn.doc)
  /\ LET lowerKeyword == ToLower(TrimSpace(fn.kw))
     IN fn' = IF fn.fullText # <<>> /\ Contains(ToLower(fn.fullText), lowerKeyword)
              THEN [fn EXCEPT !.st = "done", !.via = "text",
                     !.res = Ret(EstimatedTime(countWordsBeforeKeyword(fn.fullText, fn.kw)),
                                 TRUE, NoErr)]
              ELSE [fn EXCEPT !.st = "done", !.res = Ret(0, FALSE, NoErr)]
  /\ UNCHANGED progVars

NextSearch == S_NextKey \/ S_DecodeSegment \/ S_EndSegments \/ S_Fallback

\* searchInTranscriptJSON alone, on every document and keyword of the catalogue
SpecSearch == InitSearch /\ [][NextSearch]_vars

\* ------------------------------------------------------------- C12

\* the value of the first member of doc with the given key
MemberOf(doc, key) ==
  doc[CHOOSE p \in 1..Len(doc) :
        doc[p].key = key /\ \A q \in 1..(p - 1) : doc[q].key # key]

\* the document as the TranscriptResponse it encodes
DecodedDoc(doc) ==
  Transcript(MemberOf(doc, "text").str, 0, MemberOf(doc, "segments").arr)

\* the positions of the segments whose text holds the keyword, lowered and
\* trimmed, whatever the case of the text
SegmentHits(segs, kw) ==
  {k \in 1..Len(segs) : Contains(ToLower(segs[k].Text), ToLower(TrimSpace(kw)))}

EstimateTexts ==
  { <<"a", " ", "b", " ", "c", " ", "k", "e", "y", "w", "o", "r", "d", " ", "d">>,
    <<"A", " ", "B", " ", "a">>,
    <<" ", " ", "a", " ", " ", "b">>,
    <<"a", "b">>,
    <<>>,
    UpperIDot \o UpperIDot \o <<" ", "a", " ", "b">>,
    UpperAStroke \o UpperAStroke \o <<"b">> }

EstimateKeywords ==
  { <<"k", "e", "y", "w", "o", "r", "d">>, <<"K", "e", "y", "w", "o", "r", "d">>,
    <<"b">>, <<"B">>, <<" ", "b">>, <<"a">>, <<"d">>, <<"c", "c">> }

\* the function's arguments, before its first statement
EstimateStart(text, kw) ==
  [op |-> "estimate", text |-> text, kw |-> kw, st |-> "index",
   keywordIndex |-> 0, words |-> 0, est |-> 0]

InitEstimate ==
  /\ NoRequest
  /\ \E text \in EstimateTexts, kw \in EstimateKeywords :
       fn = EstimateStart(text, kw)

\* main.go:632-638: the byte index of the lowered keyword in the lowered
\* text; 0 words when there is none
E_Index ==
  /\ fn.op = "estimate" /\ fn.st = "index"
  /\ LET keywordIndex == Index(ToLower(fn.text), ToLower(fn.kw))
     IN fn' = IF keywordIndex = -1
              THEN [fn EXCEPT !.keywordIndex = keywordIndex, !.words = 0,
                              !.st = "counted"]
              ELSE [fn EXCEPT !.keywordIndex = keywordIndex, !.st = "slice"]
  /\ UNCHANGED progVars

\* main.go:641-643: text[:keywordIndex] of the text as given (a run-time
\* panic when the index is beyond its length), and the fields of the slice
E_Slice ==
  /\ fn.op = "estimate" /\ fn.st = "slice"
  /\ fn' = IF fn.keywordIndex > Len(fn.text)
           THEN [fn EXCEPT !.st = "panic"]
           ELSE [fn EXCEPT !.words = FieldsLen(SubSeq(fn.text, 1, fn.keywordIndex)),
                           !.st = "counted"]
  /\ UNCHANGED progVars

\* main.go:146, 444: the caller turns the count into a time
E_Estimate ==
  /\ fn.op = "estimate" /\ fn.st = "counted"
  /\ fn' = [fn EXCEPT !.est = EstimatedTime(fn.words), !.st = "done"]
  /\ UNCHANGED progVars

NextEstimate == E_Index \/ E_Slice \/ E_Estimate

\* the estimator alone, on every text and keyword of the catalogue
SpecEstimate == InitEstimate /\ [][NextEstimate]_vars

\* ------------------------------------------------------------- C13

\* the byte positions of text at which the keyword occurs, whatever the case
Occurrences(text, kw) ==
  {i \in 0..Len(text) :
     LET rest == ToLower(SubSeq(text, i + 1, Len(text)))
     IN /\ Len(rest) >= Len(ToLower(kw))
        /\ SubSeq(rest, 1, Len(ToLower(kw))) = ToLower(kw)}

\* the words of the text that end before its first occurrence of the keyword
\* begins
WordsBeforeFirst(text, kw) ==
  LET occ == Occurrences(text, kw)
      first == CHOOSE i \in occ : \A j \in occ : i <= j
  IN FieldsLen(SubSeq(text, 1, first))

\* C13: the estimator always returns; when the keyword occurs in the text
\* (whatever the case) the estimate is the number of white-space-delimited
\* words before its first occurrence, divided by 150 words a minute, in
\* milliseconds (1200 for "a b c keyword d" and "keyword"); when it does not
\* occur, countWordsBeforeKeyword returns 0.
C13_EstimateIsWordsBefore ==
  (fn.op = "estimate" /\ fn.st \in {"done", "panic"}) =>
    /\ fn.st = "done"
    /\ Occurrences(fn.text, fn.kw) # {} =>
         fn.est * 150 = WordsBeforeFirst(fn.text, fn.kw) * 60 * 1000
    /\ Occurrences(fn.text, fn.kw) = {} => fn.words = 0

\* C13 on the texts whose letters all keep their length when lowered: there
\* the estimator returns, and returns what C13 says
C13_OneByteLetters ==
  (/\ fn.op = "estimate" /\ fn.st \in {"done", "panic"}
   /\ Len(ToLower(fn.text)) = Len(fn.text)
   /\ \A i \in DOMAIN fn.text : ~(fn.text[i] \in {"C4", "B0", "C8", "BA"})) =>
    /\ fn.st = "done"
    /\ fn.words = countWordsBeforeKeyword(fn.text, fn.kw)
    /\ Occurrences(fn.text, fn.kw) # {} =>
         fn.est * 150 = WordsBeforeFirst(fn.text, fn.kw) * 60 * 1000
    /\ Occurrences(fn.text, fn.kw) = {} => fn.words = 0

\* ---------------------------------------------- secondsToTimeString alone

\* Whole seconds from 0 up to this one are formatted, each with several
\* fractions.
MaxTimeSec == 40

\* Longer times: the ends of a minute and of an hour, the example 3725 s, and
\* the times around one hundred hours.
LongTimes == {59, 3599, 3600, 3725, 35999, 359999, 360000}

\* the fractions of a second, in milliseconds, around the rounding point
Fractions == {0, 499, 500, 600}

TimeInputs ==
  {sec * 1000 + f : sec \in (0..MaxTimeSec) \cup LongTimes, f \in Fractions}

InitFormat ==
  /\ NoRequest
  /\ \E ms \in TimeInputs : fn = [op |-> "format", ms |-> ms, st |-> "call", str |-> <<>>]

\* main.go:371-377, called as at main.go:365
F_Format ==
  /\ fn.op = "format" /\ fn.st = "call"
  /\ fn' = [fn EXCEPT !.str = secondsToTimeString(fn.ms), !.st = "done"]
  /\ UNCHANGED progVars

NextFormat == F_Format

\* secondsToTimeString alone, on every time of the catalogue
SpecFormat == InitFormat /\ [][NextFormat]_vars

\* ------------------------------------------------------------- C14

\* the number a sequence of decimal digits writes
RECURSIVE DigitsValue(_)
DigitsValue(ds) ==
  IF ds = <<>> THEN 0
  ELSE DigitsValue(SubSeq(ds, 1, Len(ds) - 1)) * 10
       + (CHOOSE d \in 0..9 : DigitChars[d + 1] = ds[Len(ds)])

\* the positions of the colons of a string
Colons(str) == {i \in DOMAIN str : str[i] = ":"}

\* the time to the nearest second, a half rounding up
RoundHalfUp(ms) == IF ms % 1000 >= 500 THEN (ms \div 1000) + 1 ELSE ms \div 1000

MaxBlocks == 3

\* Blocks of a caption document: two with an entry (one with tags, two lines
\* of text and no space around the arrow), one without a timecode line, one
\* whose lines after the timecode line are blank, one that is a timecode line
\* only, one whose end precedes its start, one in which a line of spaces
\* stands where a blank line would separate two entries, and one whose only
\* line of text is a tag.
SrtBlocks ==
  { << CounterLn, TimeLn(1000, 2500, <<" ">>), WordLn >>,
    << TimeLn(3725000, 3726040, <<>>), TaggedLn, WordLn >>,
    << CounterLn, WordLn >>,
    << CounterLn, TimeLn(0, 1000, <<" ">>), SpacesLn >>,
    << TimeLn(0, 1000, <<" ">>) >>,
    << TimeLn(5000, 4000, <<" ">>), WordLn >>,
    << TimeLn(1000, 2500, <<" ">>), WordLn, SpacesLn,
       CounterLn, TimeLn(3000, 4000, <<" ">>), TaggedLn >>,
    << TimeLn(7000, 8000, <<" ">>), TextLn(<<"<", "b", ">">>, <<>>) >> }

\* how a file ends: after its last line, or after a blank line
SrtEndings == { <<>>, <<"\n", "\n">> }

SrtDocs == UNION { [1..n -> SrtBlocks] : n \in 0..MaxBlocks }

InitParse ==
  /\ NoRequest
  /\ \E blocks \in SrtDocs, ending \in SrtEndings :
       fn = [op |-> "parse", blocks |-> blocks, ending |-> ending, st |-> "call",
             entries |-> <<>>, err |-> NoErr]

\* main.go:270-318, called as at main.go:164 on the file's content
P_Parse ==
  /\ fn.op = "parse" /\ fn.st = "call"
  /\ fn' = [fn EXCEPT !.entries = ParseSRTContent(RenderDoc(fn.blocks, fn.ending)),
                      !.err = NoErr, !.st = "done"]
  /\ UNCHANGED progVars

NextParse == P_Parse

\* ParseSRTContent alone, on every document of the catalogue
SpecParse == InitParse /\ [][NextParse]_vars

\* ------------------------------------------------------------- C15

\* a line of white space only
BlankLn(ln) == ln.kind = "text" /\ \A i \in DOMAIN ln.str : ln.str[i] = " "

\* what the lines show, the blank ones left out; a timecode line that is not
\* the first of its block shows as it is written
RECURSIVE ShownParts(_)
ShownParts(lns) ==
  IF lns = <<>> THEN <<>>
  ELSE (IF BlankLn(Head(lns)) THEN <<>>
        ELSE IF Head(lns).kind = "time" THEN << Render(Head(lns)) >>
        ELSE << Head(lns).shown >>) \o ShownParts(Tail(lns))

\* the entry a block stands for: none without a timecode line or when every
\* line after the first timecode line is blank
EntryOf(block) ==
  LET timed == {k \in DOMAIN block : block[k].kind = "time"}
  IN IF timed = {} THEN <<>>
     ELSE LET k0 == CHOOSE k \in timed : \A j \in timed : k <= j
              parts == ShownParts(SubSeq(block, k0 + 1, Len(block)))
          IN IF parts = <<>> THEN <<>>
             ELSE << Seg(block[k0].from, block[k0].to, JoinSpace(parts)) >>

RECURSIVE EntriesOf(_)
EntriesOf(blocks) ==
  IF blocks = <<>> THEN <<>> ELSE EntryOf(Head(blocks)) \o EntriesOf(Tail(blocks))

\* every timecode line ends no earlier than it starts
ValidTimes(blocks) ==
  \A b \in DOMAIN blocks : \A k \in DOMAIN blocks[b] :
    blocks[b][k].kind = "time" => blocks[b][k].to >= blocks[b][k].from

\* C15: ParseSRTContent never returns an error; its entries are those of the
\* blocks, one after the other in the order of the blocks, a block without a
\* timecode line or with only blank lines after it giving none (so such a
\* block changes no entry of another block); and in a document whose
\* timecode lines all end no earlier than they start, every entry has
\* End >= Start.
C15_EntriesOfBlocks ==
  (fn.op = "parse" /\ fn.st = "done") =>
    /\ fn.err = NoErr
    /\ fn.entries = EntriesOf(fn.blocks)
    /\ ValidTimes(fn.blocks) =>
         \A e \in DOMAIN fn.entries : fn.entries[e].End >= fn.entries[e].Start

\* a block without an entry stood between two blocks with different entries,
\* and the two entries came out in their order
C15_Witness ==
  /\ fn.op = "parse" /\ fn.st = "done"
  /\ Len(fn.blocks) = 3
  /\ EntryOf(fn.blocks[2]) = <<>>
  /\ Len(fn.entries) = 2
  /\ fn.entries[1].Start > fn.entries[2].Start
  /\ << fn.entries[1] >> = EntryOf(fn.blocks[1])

\* ------------------------------------------------------------- C16

\* C16: the tiers are started in the order caption tier, Mode A, Mode B, each
\* at most once, and no two run at the same time; Mode A runs only after the
\* caption file could not be read and before any result, Mode B only after
\* Mode A has returned without a match; and when the caption download
\* succeeded and its file was read, the result is FOUND at the start of the
\* first entry whose text contains the keyword case-insensitively, else
\* NOT_FOUND, from the captions alone: no transcription tier was started.
C16_TiersInOrder ==
  /\ hist.started \in { <<>>, <<"captions">>, <<"captions", "modeA">>,
                        <<"captions", "modeA", "modeB">> }
  /\ ~(apc # "idle" /\ bpc # "idle")
  /\ apc # "idle" =>
       /\ pc = "modeA" /\ hist.captionFailed /\ out = NoOut
       /\ hist.started = <<"captions", "modeA">>
  /\ bpc # "idle" =>
       /\ pc = "modeB" /\ hist.captionFailed /\ out = NoOut
       /\ hist.modeA \in {"notfound", "error"}
       /\ hist.started = <<"captions", "modeA", "modeB">>
  /\ (pc \in {"done", "responded"} /\ keyword # <<>> /\ ~hist.captionFailed /\ ~cmdErr) =>
       /\ hist.started = <<"captions">>
       /\ hist.modeA = "none" /\ hist.modeB = "none"
       /\ LET subs == ParseSRTContent(hist.captions)
              hits == {k \in 1..Len(subs) :
                         Contains(ToLower(subs[k].Text), ToLower(keyword))}
          IN out = IF hits = {} THEN Out(0, FALSE, langCode, NoErr)
                   ELSE Out(subs[CHOOSE k \in hits : \A j \in hits : k <= j].Start,
                            TRUE, langCode, NoErr)

\* the captions were read, two of their entries hold the keyword, and the
\* start of the first one was returned with no transcription tier started
C16_Witness ==
  /\ pc = "done" /\ ~hist.captionFailed /\ ~cmdErr
  /\ out.found /\ out.ts = 1000
  /\ Len(ParseSRTContent(hist.captions)) = 2
  /\ \A k \in 1..2 :
       Contains(ToLower(ParseSRTContent(hist.captions)[k].Text), ToLower(keyword))
  /\ hist.started = <<"captions">>

\* ------------------------------------------------ two requests at once

\* Two calls of searchHandler run at the same time in one working directory
\* (gin serves each request on its own goroutine).  Each request is followed
\* through the statements that touch the working files; what a file holds is
\* the mark of the video it was made from.  The external tools succeed
\* unless a file they need is missing, and each video gives one chunk.

SrtName(r) == ScratchName(r, "temp_subs", creq[r].lang)
AudioName(r) == ScratchName(r, "audio.mp3", "")
EarlyDir(r) == ScratchName(r, "chunks_early", "")
ChunksDir(r) == ScratchName(r, "chunks", "")
TranscriptName(r) == ScratchName(r, "transcript_segments.json", "")

\* everything but creq and cfs
soloVars == <<reqVars, pipeVars, fsVars, aVars, bVars, hist, http, fn>>

InitTwo ==
  /\ NoSingleRequest
  /\ fn = NoFn
  /\ creq \in [Reqs -> {[IdleReq EXCEPT !.lang = lg] : lg \in CLangs}]
  /\ cfs = [n \in AllNames |-> "absent"]

\* main.go:338-352: the request arrives
T_Arrive(r) ==
  /\ creq[r].pc = "idle"
  /\ creq' = [creq EXCEPT ![r].pc = "captions"]
  /\ UNCHANGED <<cfs, soloVars>>

\* main.go:100-111: yt-dlp writes the caption file, or finds no captions
T_DownloadCaptions(r) ==
  /\ creq[r].pc = "captions"
  /\ \E wrote \in BOOLEAN :
       /\ cfs' = IF wrote THEN [cfs EXCEPT ![SrtName(r)] = Video(r)] ELSE cfs
       /\ creq' = [creq EXCEPT ![r].pc = "read", ![r].wrote = wrote]
  /\ UNCHANGED soloVars

\* main.go:113-174: read the caption file; without it go on to Mode A, with
\* it search it and remove it (the deferred os.Remove)
T_ReadCaptions(r) ==
  /\ creq[r].pc = "read"
  /\ LET c == cfs[SrtName(r)]
     IN IF c = "absent"
        THEN /\ creq' = [creq EXCEPT ![r].pc = "A_download",
                                     ![r].missing = creq[r].missing \/ creq[r].wrote]
             /\ cfs' = cfs
        ELSE /\ creq' = [creq EXCEPT ![r].pc = "done", ![r].data = c,
                                     ![r].foreign = creq[r].foreign \/ c # Video(r)]
             /\ cfs' = [cfs EXCEPT ![SrtName(r)] = "absent"]
  /\ UNCHANGED soloVars

\* main.go:181-195: Mode A downloads the audio
TA_Download(r) ==
  /\ creq[r].pc = "A_download"
  /\ cfs' = [cfs EXCEPT ![AudioName(r)] = Video(r)]
  /\ creq' = [creq EXCEPT ![r].pc = "A_mkdir"]
  /\ UNCHANGED soloVars

\* main.go:198-202: os.RemoveAll and os.MkdirAll of the chunk directory
TA_MakeDir(r) ==
  /\ creq[r].pc = "A_mkdir"
  /\ cfs' = [cfs EXCEPT ![EarlyDir(r)] = "empty"]
  /\ creq' = [creq EXCEPT ![r].pc = "A_segment"]
  /\ UNCHANGED soloVars

\* main.go:205-230: ffmpeg cuts the audio file into the chunk directory; if
\* either is missing it fails, the function cleans up and returns an error,
\* and the pipeline goes on to GetTranscript
TA_Segment(r) ==
  /\ creq[r].pc = "A_segment"
  /\ LET a == cfs[AudioName(r)]
     IN IF a = "absent" \/ cfs[EarlyDir(r)] = "absent"
        THEN /\ cfs' = [cfs EXCEPT ![AudioName(r)] = "absent",
                                   ![EarlyDir(r)] = "absent"]
             /\ creq' = [creq EXCEPT ![r].pc = "B_download", ![r].missing = TRUE]
        ELSE /\ cfs' = [cfs EXCEPT ![EarlyDir(r)] = a]
             /\ creq' = [creq EXCEPT ![r].pc = "A_call",
                                     ![r].foreign = creq[r].foreign \/ a # Video(r)]
  /\ UNCHANGED soloVars

\* main.go:240-264: the chunk file is sent for transcription; a file that is
\* no longer there is an error of the call, which is skipped
TA_Call(r) ==
  /\ creq[r].pc = "A_call"
  /\ LET d == cfs[EarlyDir(r)]
     IN IF d \in {"absent", "empty"}
        THEN creq' = [creq EXCEPT ![r].pc = "A_cleanup", ![r].found = FALSE,
                                  ![r].missing = TRUE]
        ELSE \E found \in BOOLEAN :
               creq' = [creq EXCEPT ![r].pc = "A_cleanup", ![r].found = found,
                                    ![r].data = d,
                                    ![r].foreign = creq[r].foreign \/ d # Video(r)]
  /\ UNCHANGED <<cfs, soloVars>>

\* main.go:259-268: Mode A removes its files and returns; the pipeline
\* returns a match and otherwise calls GetTranscript (main.go:117-123)
TA_Cleanup(r) ==
  /\ creq[r].pc = "A_cleanup"
  /\ cfs' = [cfs EXCEPT ![AudioName(r)] = "absent", ![EarlyDir(r)] = "absent"]
  /\ creq' = [creq EXCEPT ![r].pc = IF creq[r].found THEN "done" ELSE "B_download"]
  /\ UNCHANGED soloVars

\* main.go:478-495: Mode B downloads the audio
TB_Download(r) ==
  /\ creq[r].pc = "B_download"
  /\ cfs' = [cfs EXCEPT ![AudioName(r)] = Video(r)]
  /\ creq' = [creq EXCEPT ![r].pc = "B_mkdir"]
  /\ UNCHANGED soloVars

\* main.go:499-503
TB_MakeDir(r) ==
  /\ creq[r].pc = "B_mkdir"
  /\ cfs' = [cfs EXCEPT ![ChunksDir(r)] = "empty"]
  /\ creq' = [creq EXCEPT ![r].pc = "B_segment"]
  /\ UNCHANGED soloVars

\* main.go:506-527: as in Mode A, but a failure returns with nothing removed
\* and the pipeline returns an error (main.go:124-126)
TB_Segment(r) ==
  /\ creq[r].pc = "B_segment"
  /\ LET a == cfs[AudioName(r)]
     IN IF a = "absent" \/ cfs[ChunksDir(r)] = "absent"
        THEN /\ cfs' = cfs
             /\ creq' = [creq EXCEPT ![r].pc = "done", ![r].missing = TRUE]
        ELSE /\ cfs' = [cfs EXCEPT ![ChunksDir(r)] = a]
             /\ creq' = [creq EXCEPT ![r].pc = "B_call",
                                     ![r].foreign = creq[r].foreign \/ a # Video(r)]
  /\ UNCHANGED soloVars

\* main.go:548-596: the chunk file is sent for transcription; an error of the
\* call makes GetTranscript return an error
TB_Call(r) ==
  /\ creq[r].pc = "B_call"
  /\ LET d == cfs[ChunksDir(r)]
     IN IF d \in {"absent", "empty"}
        THEN creq' = [creq EXCEPT ![r].pc = "done", ![r].missing = TRUE]
        ELSE creq' = [creq EXCEPT ![r].pc = "B_write", ![r].data = d,
                                  ![r].foreign = creq[r].foreign \/ d # Video(r)]
  /\ UNCHANGED <<cfs, soloVars>>

\* main.go:613-627: the transcript is written, the audio and the chunks are
\* removed
TB_Write(r) ==
  /\ creq[r].pc = "B_write"
  /\ cfs' = [cfs EXCEPT ![TranscriptName(r)] = creq[r].data,
                        ![AudioName(r)] = "absent", ![ChunksDir(r)] = "absent"]
  /\ creq' = [creq EXCEPT ![r].pc = "B_read"]
  /\ UNCHANGED soloVars

\* main.go:128-153: the pipeline reads the transcript file back and searches
\* it; it removes it when nothing is found
T_ReadTranscript(r) ==
  /\ creq[r].pc = "B_read"
  /\ LET t == cfs[TranscriptName(r)]
     IN IF t = "absent"
        THEN /\ creq' = [creq EXCEPT ![r].pc = "done", ![r].missing = TRUE]
             /\ cfs' = cfs
        ELSE \E found \in BOOLEAN :
               /\ creq' = [creq EXCEPT ![r].pc = "done", ![r].found = found,
                                       ![r].data = t,
                                       ![r].foreign = creq[r].foreign \/ t # Video(r)]
               /\ cfs' = IF found THEN cfs
                         ELSE [cfs EXCEPT ![TranscriptName(r)] = "absent"]
  /\ UNCHANGED soloVars

NextTwo ==
  \/ \E r \in Reqs : T_Arrive(r)
  \/ \E r \in Reqs : T_DownloadCaptions(r)
  \/ \E r \in Reqs : T_ReadCaptions(r)
  \/ \E r \in Reqs : TA_Download(r)
  \/ \E r \in Reqs : TA_MakeDir(r)
  \/ \E r \in Reqs : TA_Segment(r)
  \/ \E r \in Reqs : TA_Call(r)
  \/ \E r \in Reqs : TA_Cleanup(r)
  \/ \E r \in Reqs : TB_Download(r)
  \/ \E r \in Reqs : TB_MakeDir(r)
  \/ \E r \in Reqs : TB_Segment(r)
  \/ \E r \in Reqs : TB_Call(r)
  \/ \E r \in Reqs : TB_Write(r)
  \/ \E r \in Reqs : T_ReadTranscript(r)

\* two requests at once in one working directory
SpecTwo == InitTwo /\ [][NextTwo]_vars

\* ------------------------------------------------------------- C17

C18_EstimatorFindsKeyword ==
  (fn.op = "search" /\ fn.st = "done" /\ fn.via = "text") =>
    Index(ToLower(fn.fullText), ToLower(fn.kw)) # -1

\* ------------------------------------------------------------- C19

\* C19: in Mode B every chunk is submitted at most once and, once the loop
\* has passed it, exactly once; every slot of results is written at most
\* once, by the worker of its own index only, and exactly once when that
\* worker has finished; and the error check and the merge, which read the
\* slots, run only when every chunk was submitted and every worker has
\* written its slot and is done.
C19_SlotsWrittenOnce ==
  (bpc \in {"B_dispatch", "B_check", "B_persist", "B_cleanup"}) =>
    /\ \A i \in 0..(bN - 1) :
         /\ bLog.submits[i] = (IF i < bi THEN 1 ELSE 0)
         /\ bLog.writes[i] = (IF worker[i] \in {"wrote", "done"} THEN 1 ELSE 0)
         /\ bLog.writers[i] \subseteq {i}
         /\ worker[i] \in {"wrote", "done"} => results[i].index = i
    /\ bpc # "B_dispatch" =>
         \A i \in 0..(bN - 1) :
           worker[i] = "done" /\ bLog.submits[i] = 1 /\ bLog.writes[i] = 1

\* with more chunks than limiter slots and calls that returned out of order,
\* every slot has been written once when the error check is reached
C19_Witness ==
  /\ bpc = "B_check" /\ bN > semCap /\ outOfOrder
  /\ \A i \in 0..(bN - 1) : bLog.writes[i] = 1 /\ bLog.writers[i] = {i}

\* ------------------------------------------------------------- C20

\* C20: when every transcription call returns and every goroutine is
\* scheduled, Mode B, once its dispatch loop has begun, returns, whatever
\* the number of chunks (more than the 4 limiter slots too): the loop is
\* never stuck on the limiter, every slot taken has been given back and
\* every worker has been waited for.
C20_ModeBReturns ==
  (bpc = "B_dispatch") ~>
    (/\ bpc = "returned"
     /\ sem = 0 /\ wg = 0 /\ bi = bN
     /\ \A i \in DOMAIN worker : worker[i] = "done")

\* Mode B has returned a transcript of more chunks than the limiter has slots
C20_Witness ==
  /\ bpc = "returned" /\ bRes.err = NoErr
  /\ bN > semCap /\ bi = bN
  /\ sem = 0 /\ wg = 0
  /\ \A i \in DOMAIN worker : worker[i] = "done"

====
